---- MODULE Spec2Model ----
(***************************************************************************)
(* Model of csv_to_pdf.py: a CSV export of conference submissions is read  *)
(* row by row and rendered into a story (list of flowables) that is        *)
(* serialized once by doc.build.                                           *)
(*                                                                         *)
(* Strings are sequences of tokens.  A token is an atomic piece of text:   *)
(* a single character of interest ("|", " ", ",", a double quote) or a     *)
(* word that contains none of them.  The empty string is <<>>, string      *)
(* concatenation is \o, and the string operations of the program (strip,   *)
(* split, replace, the substring test "in") are computed on the tokens.    *)
(* A dict is a sequence of <<key, value>> pairs in insertion order.        *)
(***************************************************************************)
EXTENDS Integers, Sequences, FiniteSets, TLC

VARIABLES
    csvfile,        \* the parsed input file: a sequence of lines, each a sequence of cells
    blind_judge,    \* the blind_judge argument of csv_to_pdf
    pc,             \* position of the run
    header,         \* the cleaned header row
    rowIdx,         \* number of data rows the reader has yielded
    data,           \* the row mapping of the row being / last processed
    address,        \* what format_address returned for that row
    formatted_info, \* what format_speaker_info returned last
    story,          \* the list of flowables
    rowStart,       \* index in story of the PageBreak of the row being / last processed
    built,          \* the story handed to doc.build, one entry per call
    error           \* the exception that ended the run, "none" if there is none

vars == <<csvfile, blind_judge, pc, header, rowIdx, data, address,
          formatted_info, story, rowStart, built, error>>

-----------------------------------------------------------------------------
(* Bounds *)

MaxRows == 2

MaxRowsWide == 1

MaxSpeakers == 2

-----------------------------------------------------------------------------
(* Python string and list primitives, on token sequences *)

Truthy(s) == Len(s) > 0

IsSpace(t) == t = " "

RECURSIVE LStrip(_)
LStrip(s) == IF s # <<>> /\ IsSpace(Head(s)) THEN LStrip(Tail(s)) ELSE s

RECURSIVE RStrip(_)
RStrip(s) ==
    IF s # <<>> /\ IsSpace(s[Len(s)]) THEN RStrip(SubSeq(s, 1, Len(s) - 1)) ELSE s

Strip(s) == RStrip(LStrip(s))

RECURSIVE Replace(_, _, _)
Replace(s, old, new) ==
    IF s = <<>> THEN <<>>
    ELSE (IF Head(s) = old THEN new ELSE <<Head(s)>>) \o Replace(Tail(s), old, new)

RECURSIVE Split(_, _)
Split(s, sep) ==
    IF \A i \in 1..Len(s) : s[i] # sep THEN <<s>>
    ELSE LET i == CHOOSE j \in 1..Len(s) :
                      s[j] = sep /\ \A k \in 1..(j - 1) : s[k] # sep
         IN  <<SubSeq(s, 1, i - 1)>> \o Split(SubSeq(s, i + 1, Len(s)), sep)

Contains(s, sub) ==
    \E i \in 0..(Len(s) - Len(sub)) : SubSeq(s, i + 1, i + Len(sub)) = sub

-----------------------------------------------------------------------------
(* dict primitives *)

DictHas(d, k) == \E i \in 1..Len(d) : d[i][1] = k

DictIndex(d, k) == CHOOSE i \in 1..Len(d) : d[i][1] = k

DictGet(d, k, default) == IF DictHas(d, k) THEN d[DictIndex(d, k)][2] ELSE default

DictSet(d, k, v) ==
    IF DictHas(d, k) THEN [d EXCEPT ![DictIndex(d, k)] = <<k, v>>]
    ELSE Append(d, <<k, v>>)

DictDel(d, k) ==
    LET i == DictIndex(d, k) IN SubSeq(d, 1, i - 1) \o SubSeq(d, i + 1, Len(d))

DictKeys(d) == [i \in 1..Len(d) |-> d[i][1]]

-----------------------------------------------------------------------------
(* reportlab flowables, as the program constructs them *)

Paragraph(text, style) == [type |-> "Paragraph", text |-> text, style |-> style]

\* Spacer(1, h * inch): the height is kept in tenths of an inch
Spacer(tenths) == [type |-> "Spacer", tenths |-> tenths]

PageBreak == [type |-> "PageBreak"]

-----------------------------------------------------------------------------
(* Column names and text literals of the program *)

K_EntryId == <<"Entry Id">>
K_Street  == <<"Address (Street Address)">>
K_Line2   == <<"Address (Address Line 2)">>
K_City    == <<"Address (City)">>
K_State   == <<"Address (State / Province)">>
K_Zip     == <<"Address (ZIP / Postal Code)">>
K_Note    == <<"Address (Note: We are unable to sponsor or provide visas.)">>
K_Email   == <<"Primary/Preferred Email to contact (Enter Email)">>
K_Phone   == <<"Phone">>
K_JobTitle == <<"Job Title">>

AddressKeys == <<K_Street, K_Line2, K_City, K_State, K_Zip, K_Note>>

SpeakerMarker == <<"Speaker(s)/ Author(s)">>
SpeakerInfoMarker == <<"Speaker(s)/ Author(s)", " Info">>
AbstractMarker == <<"Extended Abstract">>

Label(key) == <<"<b>">> \o key \o <<":</b>">>

-----------------------------------------------------------------------------
(* format_address, lines 9-37 *)

\* mutant: the city/state/zip line is appended without the test of line 26
AddressPartsNoDegenerate(d) ==
    (IF Truthy(DictGet(d, K_Street, <<>>)) THEN <<DictGet(d, K_Street, <<>>)>> ELSE <<>>)
    \o (IF Truthy(DictGet(d, K_Line2, <<>>)) THEN <<DictGet(d, K_Line2, <<>>)>> ELSE <<>>)
    \o <<DictGet(d, K_City, <<>>) \o <<",", " ">> \o DictGet(d, K_State, <<>>)
            \o <<" ">> \o DictGet(d, K_Zip, <<>>)>>
    \o (IF Truthy(DictGet(d, K_Note, <<>>)) THEN <<DictGet(d, K_Note, <<>>)>> ELSE <<>>)

\* lines 19-29: the display lines, read with data.get
AddressParts(d) ==
    LET street == DictGet(d, K_Street, <<>>)
        line2  == DictGet(d, K_Line2, <<>>)
        note   == DictGet(d, K_Note, <<>>)
        city_state_zip ==
            DictGet(d, K_City, <<>>) \o <<",", " ">> \o DictGet(d, K_State, <<>>)
                \o <<" ">> \o DictGet(d, K_Zip, <<>>)
    IN  (IF Truthy(street) THEN <<street>> ELSE <<>>)
        \o (IF Truthy(line2) THEN <<line2>> ELSE <<>>)
        \o (IF city_state_zip # <<",", " ", " ">> THEN <<city_state_zip>> ELSE <<>>)
        \o (IF Truthy(note) THEN <<note>> ELSE <<>>)

\* lines 31-36: del data[key] for the six keys in turn; a missing key raises
\* KeyError and leaves the keys deleted so far deleted
RECURSIVE DelKeys(_, _)
DelKeys(d, keys) ==
    IF keys = <<>> THEN [data |-> d, err |-> "none"]
    ELSE IF ~DictHas(d, Head(keys)) THEN [data |-> d, err |-> "KeyError"]
    ELSE DelKeys(DictDel(d, Head(keys)), Tail(keys))

format_address(d) ==
    LET del == DelKeys(d, AddressKeys)
    IN  [parts |-> AddressParts(d), data |-> del.data, err |-> del.err]

-----------------------------------------------------------------------------
(* format_speaker_info, lines 40-84 *)

\* line 54
RECURSIVE SpeakerKeys(_)
SpeakerKeys(keys) ==
    IF keys = <<>> THEN <<>>
    ELSE (IF Contains(Head(keys), SpeakerInfoMarker) THEN <<Head(keys)>> ELSE <<>>)
         \o SpeakerKeys(Tail(keys))

\* lines 60-66: the IndexError of speaker[1] (read only when speaker[0] is
\* non-empty) or of speaker[3]; indices are Python's, speaker[0] is parts[1]
Malformed(parts) == (Truthy(parts[1]) /\ Len(parts) < 2) \/ Len(parts) < 4

\* lines 59-67 for one speaker slot whose value has four parts or more
SpeakerLines(key, parts) ==
    <<Paragraph(Label(key), "Normal")>>
    \o (IF Truthy(parts[1]) /\ Truthy(parts[2])
        THEN <<Paragraph(parts[1] \o <<",", " ">> \o parts[2], "Normal")>>
        ELSE <<>>)
    \o (IF Truthy(parts[4]) THEN <<Paragraph(parts[4], "Normal")>> ELSE <<>>)
    \o (IF Truthy(parts[3]) THEN <<Paragraph(parts[3], "Normal")>> ELSE <<>>)
    \o <<Spacer(1)>>

\* mutant: the loop is also left at a slot whose first or last name is empty
RECURSIVE SpeakerLoopStopOnNameless(_, _, _)
SpeakerLoopStopOnNameless(d, keys, acc) ==
    IF keys = <<>> THEN [info |-> acc, err |-> "none"]
    ELSE IF ~Truthy(DictGet(d, Head(keys), <<>>)) THEN [info |-> acc, err |-> "none"]
    ELSE IF Malformed(Split(DictGet(d, Head(keys), <<>>), "|"))
         THEN [info |-> <<>>, err |-> "IndexError"]
    ELSE IF ~Truthy(Split(DictGet(d, Head(keys), <<>>), "|")[1])
            \/ ~Truthy(Split(DictGet(d, Head(keys), <<>>), "|")[2])
         THEN [info |-> acc, err |-> "none"]
    ELSE SpeakerLoopStopOnNameless(d, Tail(keys),
             acc \o SpeakerLines(Head(keys), Split(DictGet(d, Head(keys), <<>>), "|")))

\* lines 55-67: the loop over the speaker keys, left at the first empty value
RECURSIVE SpeakerLoop(_, _, _)
SpeakerLoop(d, keys, acc) ==
    IF keys = <<>> THEN [info |-> acc, err |-> "none"]
    ELSE IF ~Truthy(DictGet(d, Head(keys), <<>>)) THEN [info |-> acc, err |-> "none"]
    ELSE IF Malformed(Split(DictGet(d, Head(keys), <<>>), "|"))
         THEN [info |-> <<>>, err |-> "IndexError"]
    ELSE SpeakerLoop(d, Tail(keys),
                     acc \o SpeakerLines(Head(keys), Split(DictGet(d, Head(keys), <<>>), "|")))

\* lines 69-82
ContactInfo(d) ==
    <<Paragraph(<<"<b>", "Primary Email", ":</b>">>, "Normal"),
      Paragraph(DictGet(d, K_Email, <<>>), "Normal"),
      Spacer(1),
      Paragraph(<<"<b>", "Phone", ":</b>">>, "Normal"),
      Paragraph(DictGet(d, K_Phone, <<>>), "Normal"),
      Spacer(1),
      Paragraph(<<"<b>", "Job Title", ":</b>">>, "Normal"),
      Paragraph(DictGet(d, K_JobTitle, <<>>), "Normal"),
      Spacer(1)>>

\* the contact lines follow the speaker lines unless the loop raised
WithContact(loop, contact) ==
    IF loop.err # "none" THEN loop
    ELSE [info |-> loop.info \o contact, err |-> "none"]

format_speaker_info(d) ==
    WithContact(SpeakerLoop(d, SpeakerKeys(DictKeys(d)), <<>>), ContactInfo(d))

-----------------------------------------------------------------------------
(* csv_to_pdf, lines 87-157 *)

\* line 103: h.replace('"', '') on every header cell
RECURSIVE CleanHeader(_)
CleanHeader(h) ==
    IF h = <<>> THEN <<>>
    ELSE <<Replace(Head(h), "\"", <<>>)>> \o CleanHeader(Tail(h))

\* lines 111-113: data[col] = row[i] for each header column in turn; a row
\* shorter than the header raises IndexError
RECURSIVE BuildData(_, _, _, _)
BuildData(hdr, row, i, d) ==
    IF i > Len(hdr) THEN [data |-> d, err |-> "none"]
    ELSE IF i > Len(row) THEN [data |-> d, err |-> "IndexError"]
    ELSE BuildData(hdr, row, i + 1, DictSet(d, hdr[i], row[i]))

\* lines 115-120
RowHeading(d) ==
    <<PageBreak,
      Paragraph(<<"Entry ID: ">> \o DictGet(d, K_EntryId, <<"No Entry ID">>), "h2"),
      Spacer(1)>>

\* what one item of the loop over data.items() does: the elements it appends,
\* the exception it raises, and the value of formatted_info when it assigns it
Plain(elems) == [elems |-> elems, err |-> "none", called |-> FALSE, info |-> <<>>]

Raise(elems, err) == [elems |-> elems, err |-> err, called |-> FALSE, info |-> <<>>]

\* lines 140-146: the Job Title branch.  In blind mode address[-1] raises
\* IndexError on an empty list, after the label has been appended.
AddressBlock(addr, blind) ==
    IF blind
    THEN IF addr = <<>>
         THEN Raise(<<Paragraph(<<"<b>", "Address", ":</b>">>, "Normal")>>, "IndexError")
         ELSE Plain(<<Paragraph(<<"<b>", "Address", ":</b>">>, "Normal"),
                      Paragraph(addr[Len(addr)], "Normal"), Spacer(1)>>)
    ELSE Plain(<<Paragraph(<<"<b>", "Address", ":</b>">>, "Normal")>>
               \o [i \in 1..Len(addr) |-> Paragraph(addr[i], "Normal")]
               \o <<Spacer(1)>>)

\* lines 148-151
AbstractLink(value) ==
    <<Paragraph(<<"<b>", "Abstract Link", ":</b>">>, "Normal"),
      Paragraph(<<"<a href='">> \o value \o <<"'>">> \o value \o <<"</a>">>, "Normal"),
      Spacer(1)>>

\* lines 153-155
GenericField(key, value) ==
    <<Paragraph(Label(key), "Normal"), Paragraph(value, "Normal"), Spacer(1)>>

\* mutant: the result of format_speaker_info is appended whatever the mode
SpeakerGateAlways(fi, blind) ==
    IF fi.err # "none" THEN Raise(<<>>, fi.err)
    ELSE [elems |-> IF Truthy(fi.info) THEN fi.info \o <<Spacer(1)>> ELSE <<>>,
          err |-> "none", called |-> TRUE, info |-> fi.info]

\* lines 133-135: the result of format_speaker_info is appended, followed by a
\* spacer, only when not blind and not empty
SpeakerGate(fi, blind) ==
    IF fi.err # "none" THEN Raise(<<>>, fi.err)
    ELSE [elems |-> IF ~blind /\ Truthy(fi.info) THEN fi.info \o <<Spacer(1)>> ELSE <<>>,
          err |-> "none", called |-> TRUE, info |-> fi.info]

\* mutant: format_speaker_info is called only when its result is used
SpeakerBranchLazy(d, blind) ==
    IF blind THEN Plain(<<>>) ELSE SpeakerGate(format_speaker_info(d), blind)

\* lines 132-135: the speaker branch; format_speaker_info is called whatever
\* the mode
SpeakerBranch(d, blind) == SpeakerGate(format_speaker_info(d), blind)

\* mutant: line 126 tests the value without stripping it
RenderItemNoStrip(key, value, d, addr, blind) ==
    IF ~Truthy(value) \/ key = K_EntryId THEN Plain(<<>>)
    ELSE IF Contains(key, SpeakerMarker) THEN SpeakerBranch(d, blind)
    ELSE IF key \in {K_Phone, K_Email} THEN Plain(<<>>)
    ELSE IF key = K_JobTitle THEN AddressBlock(addr, blind)
    ELSE IF Contains(key, AbstractMarker) THEN Plain(AbstractLink(value))
    ELSE Plain(GenericField(key, value))

\* mutant: line 126 does not skip the Entry Id key, so line 128 renders it again
RenderItemEntryIdTwice(key, value, d, addr, blind) ==
    IF ~Truthy(Strip(value)) THEN Plain(<<>>)
    ELSE IF key = K_EntryId
         THEN Plain(<<Paragraph(<<"Entry ID: ">> \o value, "h2"), Spacer(1)>>)
    ELSE IF Contains(key, SpeakerMarker) THEN SpeakerBranch(d, blind)
    ELSE IF key \in {K_Phone, K_Email} THEN Plain(<<>>)
    ELSE IF key = K_JobTitle THEN AddressBlock(addr, blind)
    ELSE IF Contains(key, AbstractMarker) THEN Plain(AbstractLink(value))
    ELSE Plain(GenericField(key, value))

\* lines 125-155: the body of the loop over data.items() for one item
RenderItem(key, value, d, addr, blind) ==
    IF ~Truthy(Strip(value)) \/ key = K_EntryId THEN Plain(<<>>)
    ELSE IF key = K_EntryId
         THEN Plain(<<Paragraph(<<"Entry ID: ">> \o value, "h2"), Spacer(1)>>)
    ELSE IF Contains(key, SpeakerMarker) THEN SpeakerBranch(d, blind)
    ELSE IF key \in {K_Phone, K_Email} THEN Plain(<<>>)
    ELSE IF key = K_JobTitle THEN AddressBlock(addr, blind)
    ELSE IF Contains(key, AbstractMarker) THEN Plain(AbstractLink(value))
    ELSE Plain(GenericField(key, value))

\* lines 124-155: the loop over data.items(), from item k on; an exception
\* leaves the loop with what the item appended before raising
RECURSIVE RenderItems(_, _, _, _, _, _)
RECURSIVE AfterItem(_, _, _, _, _, _, _)
RenderItems(d, k, addr, blind, st, info) ==
    IF k > Len(d) THEN [story |-> st, info |-> info, err |-> "none"]
    ELSE AfterItem(d, k, addr, blind, st, info,
                   RenderItem(d[k][1], d[k][2], d, addr, blind))

AfterItem(d, k, addr, blind, st, info, r) ==
    IF r.err # "none" THEN [story |-> st \o r.elems, info |-> info, err |-> r.err]
    ELSE RenderItems(d, k + 1, addr, blind, st \o r.elems,
                     IF r.called THEN r.info ELSE info)

\* lines 124-155 for one row, given what format_address returned
RowItems(fa, blind, st, info) ==
    [data |-> fa.data, address |-> fa.parts]
        @@ RenderItems(fa.data, 1, fa.parts, blind, st, info)

\* lines 115-155 for one row, given its mapping
RowBody(d, fa, blind, st, addr, info) ==
    IF fa.err # "none"
    THEN [data |-> fa.data, address |-> addr, info |-> info,
          story |-> st \o RowHeading(d), err |-> fa.err]
    ELSE RowItems(fa, blind, st \o RowHeading(d), info)

\* lines 109-155: the body of the loop over the rows, for one row
RowResult(bd, blind, st, addr, info) ==
    IF bd.err # "none"
    THEN [data |-> bd.data, address |-> addr, info |-> info, story |-> st,
          err |-> bd.err]
    ELSE RowBody(bd.data, format_address(bd.data), blind, st, addr, info)

RenderRow(hdr, row, blind, st, addr, info) ==
    RowResult(BuildData(hdr, row, 1, <<>>), blind, st, addr, info)

-----------------------------------------------------------------------------
(* The run *)

\* lines 100-107: open the file, read and clean the header, start the story.
\* next(reader) raises StopIteration on a file without lines.
ReadHeader ==
    /\ pc = "open"
    /\ IF csvfile = <<>>
       THEN /\ pc' = "aborted"
            /\ error' = "StopIteration"
            /\ UNCHANGED <<header, story>>
       ELSE /\ header' = CleanHeader(csvfile[1])
            /\ story' = <<Paragraph(<<"Call For Participation Entries">>, "h1"), Spacer(2)>>
            /\ pc' = "rows"
            /\ UNCHANGED error
    /\ UNCHANGED <<csvfile, blind_judge, rowIdx, data, address, formatted_info,
                   rowStart, built>>

\* lines 109-155: one iteration of `for row in reader`
ProcessRow ==
    /\ pc = "rows"
    /\ rowIdx + 1 < Len(csvfile)
    /\ \E r \in {RenderRow(header, csvfile[rowIdx + 2], blind_judge, story,
                           address, formatted_info)} :
           /\ rowIdx' = rowIdx + 1
           /\ data' = r.data
           /\ address' = r.address
           /\ formatted_info' = r.info
           /\ story' = r.story
           /\ rowStart' = IF Len(r.story) > Len(story) THEN Len(story) + 1 ELSE rowStart
           /\ error' = r.err
           /\ pc' = IF r.err = "none" THEN "rows" ELSE "aborted"
    /\ UNCHANGED <<csvfile, blind_judge, header, built>>

\* mutant: doc.build(story) also runs when a row has raised
BuildInFinally ==
    /\ \/ pc = "rows" /\ rowIdx + 1 = Len(csvfile)
       \/ pc = "aborted" /\ built = <<>>
    /\ built' = Append(built, story)
    /\ pc' = IF pc = "rows" THEN "done" ELSE "aborted"
    /\ UNCHANGED <<csvfile, blind_judge, header, rowIdx, data, address,
                   formatted_info, story, rowStart, error>>

\* line 157: doc.build(story), once the reader is exhausted
Build ==
    /\ pc = "rows"
    /\ rowIdx + 1 = Len(csvfile)
    /\ built' = Append(built, story)
    /\ pc' = "done"
    /\ UNCHANGED <<csvfile, blind_judge, header, rowIdx, data, address,
                   formatted_info, story, rowStart, error>>

Next == ReadHeader \/ ProcessRow \/ Build

\* a call of format_address on the mapping in data, lines 9-37
CallFormatAddress ==
    /\ pc = "format_address"
    /\ \E r \in {format_address(data)} :
           /\ data' = r.data
           /\ address' = IF r.err = "none" THEN r.parts ELSE address
           /\ error' = r.err
           /\ pc' = IF r.err = "none" THEN "returned" ELSE "raised"
    /\ UNCHANGED <<csvfile, blind_judge, header, rowIdx, formatted_info, story,
                   rowStart, built>>

\* a call of format_speaker_info on the mapping in data, lines 40-84
CallFormatSpeakerInfo ==
    /\ pc = "format_speaker_info"
    /\ \E r \in {format_speaker_info(data)} :
           /\ formatted_info' = r.info
           /\ error' = r.err
           /\ pc' = IF r.err = "none" THEN "returned" ELSE "raised"
    /\ UNCHANGED <<csvfile, blind_judge, header, rowIdx, data, address, story,
                   rowStart, built>>

-----------------------------------------------------------------------------
(* Input files *)

RECURSIVE Prod(_)
Prod(doms) ==
    IF doms = <<>> THEN {<<>>}
    ELSE {<<v>> \o r : v \in Head(doms), r \in Prod(Tail(doms))}

RECURSIVE SeqsUpTo(_, _)
SeqsUpTo(S, n) ==
    IF n = 0 THEN {<<>>}
    ELSE LET shorter == SeqsUpTo(S, n - 1)
         IN  shorter \cup {Append(q, x) : q \in {t \in shorter : Len(t) = n - 1}, x \in S}

\* the files of a schema: its header line followed by up to n of its rows
FilesOf(schema, n) == {<<schema.header>> \o rows : rows \in SeqsUpTo(schema.rows, n)}

\* column names of the input files
H_EntryIdQuoted == <<"\"", "Entry Id", "\"">>
H_Title    == <<"Title">>
H_Speaker(i) == <<"Speaker(s)/ Author(s)", " Info", " ", ToString(i)>>
H_Speaker1 == H_Speaker(1)
H_Speaker2 == H_Speaker(2)
H_Abstract == <<"Extended Abstract", " (PDF)">>

\* cell values
Empty == <<>>
Blank == <<" ">>
Jane  == <<"Jane", "|", "Doe", "|", "Acme", "|", "jane@x.com">>
Ann   == <<"Ann", "|", "Lee", "|", "Initech", "|", "ann@y.org">>
NoFirst == <<"|", "Roe", "|", "Globex", "|", "roe@z.net">>
NoLast  == <<"Max", "|", "|", "Hooli", "|", "max@w.io">>
TwoParts == <<"Bob", "|", "Ray">>
ThreeParts == <<"Sue", "|", "Kim", "|", "Umbrella">>

\* one row of rendered speaker columns, contact columns and a fixed address
SpeakerSchema ==
    [header |-> <<H_EntryIdQuoted, H_Title, H_Speaker1, H_Speaker2, K_Email, K_Phone,
                  K_JobTitle, K_Street, K_Line2, K_City, K_State, K_Zip, K_Note>>,
     rows |-> Prod(<<{<<"42">>}, {Empty, <<"Talk">>},
                     {Empty, Blank, Jane, NoFirst, TwoParts},
                     {Empty, Blank, Ann, ThreeParts},
                     {<<"pe@x.com">>}, {Empty, <<"555">>}, {Empty, <<"Chair">>},
                     {Empty}, {Empty}, {<<"Paris">>}, {Empty}, {Empty}, {Empty}>>)]

\* the address columns varied, with a generic column and the abstract link
AddressSchema ==
    [header |-> <<K_EntryId, K_JobTitle, K_Street, K_Line2, K_City, K_State, K_Zip,
                  K_Note, H_Title, H_Abstract>>,
     rows |-> Prod(<<{<<"42">>}, {Empty, <<"Chair">>},
                     {Empty, <<"1", " ", "Main", " ", "St">>}, {Empty},
                     {Empty, <<"Paris">>}, {Empty}, {Empty},
                     {Empty, <<"No", " ", "visa">>},
                     {Empty, Blank, <<"Talk">>}, {Empty, <<"http://x">>}>>)
              \cup {<<<<"43">>, <<"Chair">>>>, <<>>,
                    <<<<"44">>, <<"Chair">>, Empty, Empty, <<"Paris">>, Empty, Empty, Empty,
                      <<"Talk">>, Empty, <<"extra">>>>}]

\* a column whose name holds the speaker marker without " Info"
H_SpeakerCount == <<"Number of ", "Speaker(s)/ Author(s)">>

MarkerOnlySchema ==
    [header |-> <<K_EntryId, H_SpeakerCount, H_Speaker1, K_JobTitle, K_Street, K_Line2,
                  K_City, K_State, K_Zip, K_Note>>,
     rows |-> Prod(<<{<<"42">>}, {Empty, Blank, <<"2">>}, {Empty, Ann, TwoParts},
                     {Empty, <<"Chair">>}, {Empty}, {Empty}, {<<"Oslo">>}, {Empty},
                     {Empty}, {Empty}>>)]

\* two columns of the same name once the quotes are removed
H_TitleQuoted == <<"\"", "Title", "\"">>

DuplicateSchema ==
    [header |-> <<K_EntryId, H_Title, K_JobTitle, H_TitleQuoted, K_Street, K_Line2,
                  K_City, K_State, K_Zip, K_Note>>,
     rows |-> Prod(<<{<<"42">>}, {Empty, <<"Talk">>}, {<<"Chair">>}, {Empty, Blank, <<"Chat">>},
                     {Empty}, {Empty}, {<<"Oslo">>}, {Empty}, {Empty}, {Empty}>>)]

\* no Entry Id column
NoIdSchema ==
    [header |-> <<H_Title, K_JobTitle, K_Street, K_Line2, K_City, K_State, K_Zip, K_Note>>,
     rows |-> Prod(<<{<<"Talk">>, <<"Chat">>}, {<<"Chair">>}, {Empty}, {Empty},
                     {Empty, <<"Oslo">>}, {Empty}, {Empty}, {Empty}>>)]

\* the visa-note column is missing
NoNoteSchema ==
    [header |-> <<K_EntryId, H_Title, K_Street, K_Line2, K_City, K_State, K_Zip>>,
     rows |-> Prod(<<{<<"42">>}, {<<"Talk">>}, {Empty}, {Empty}, {<<"Rome">>},
                     {Empty}, {Empty}>>)]

\* files of several rows over few values
SmallSchema ==
    [header |-> <<H_EntryIdQuoted, H_Title, H_Speaker1, K_JobTitle, K_Street, K_Line2,
                  K_City, K_State, K_Zip, K_Note>>,
     rows |-> Prod(<<{<<"42">>, <<"7">>}, {Empty, <<"Talk">>}, {Empty, Jane, TwoParts},
                     {<<"Chair">>}, {Empty}, {Empty}, {Empty, <<"Paris">>}, {Empty},
                     {Empty}, {Empty}>>)
              \cup {<<<<"43">>>>}]

WideFiles ==
    FilesOf(SpeakerSchema, MaxRowsWide) \cup FilesOf(AddressSchema, MaxRowsWide)
        \cup FilesOf(MarkerOnlySchema, MaxRowsWide)
        \cup FilesOf(DuplicateSchema, MaxRowsWide)
        \cup FilesOf(NoIdSchema, MaxRowsWide) \cup FilesOf(NoNoteSchema, MaxRowsWide)

SmallFiles ==
    FilesOf(SmallSchema, MaxRows) \cup FilesOf(NoIdSchema, MaxRows)
        \cup FilesOf(NoNoteSchema, MaxRows) \cup {<<>>}

\* the state when csv_to_pdf is entered: lines 96-98
InitRun(files) ==
    /\ csvfile \in files
    /\ blind_judge \in BOOLEAN
    /\ pc = "open"
    /\ header = <<>>
    /\ rowIdx = 0
    /\ data = <<>>
    /\ address = <<>>
    /\ formatted_info = <<>>
    /\ story = <<>>
    /\ rowStart = 0
    /\ built = <<>>
    /\ error = "none"

\* files of one row for format_address: every combination of empty and
\* non-empty address fields, in two column orders, and with one key missing
AddressFieldSchema ==
    [header |-> <<K_EntryId, K_Street, K_Line2, K_City, K_State, K_Zip, K_Note, H_Title>>,
     rows |-> Prod(<<{<<"42">>}, {Empty, <<"1", " ", "Main", " ", "St">>},
                     {Empty, <<"Apt", " ", "2">>}, {Empty, <<"Paris">>},
                     {Empty, Blank, <<"TX">>}, {Empty, <<"75001">>},
                     {Empty, <<"No", " ", "visa">>}, {Empty, <<"Talk">>}>>)]

AddressShuffledSchema ==
    [header |-> <<K_Note, H_Title, K_Zip, K_City, K_JobTitle, K_State, K_Line2, K_Street>>,
     rows |-> Prod(<<{Empty, <<"No", " ", "visa">>}, {<<"Talk">>}, {Empty, <<"75001">>},
                     {Empty, <<"Paris">>}, {<<"Chair">>}, {Empty, <<"TX">>},
                     {Empty}, {Empty, <<"1", " ", "Main", " ", "St">>}>>)]

AddressMissingSchema ==
    [header |-> <<K_Street, K_Line2, K_City, K_Zip, K_Note, H_Title>>,
     rows |-> Prod(<<{Empty, <<"1", " ", "Main", " ", "St">>}, {Empty}, {<<"Paris">>},
                     {Empty}, {Empty}, {<<"Talk">>}>>)]

\* the files of a schema that hold exactly one row
OneRowFiles(schema) == {<<schema.header, r>> : r \in schema.rows}

AddressFiles ==
    OneRowFiles(AddressFieldSchema) \cup OneRowFiles(AddressShuffledSchema)
        \cup OneRowFiles(AddressMissingSchema)

\* files of one row for format_speaker_info: n speaker columns, then the
\* contact columns or none of them
SpeakerValues == {Empty, Blank, Jane, Ann, NoFirst, NoLast, TwoParts, ThreeParts}

SpeakerFieldSchema(n, contact) ==
    [header |-> [i \in 1..n |-> H_Speaker(i)]
                \o (IF contact THEN <<K_Email, K_Phone, K_JobTitle>> ELSE <<>>),
     rows |-> Prod([i \in 1..n |-> SpeakerValues]
                   \o (IF contact THEN <<{<<"pe@x.com">>}, {<<"555">>}, {<<"Chair">>}>>
                       ELSE <<>>))]

SpeakerFiles ==
    UNION {OneRowFiles(SpeakerFieldSchema(n, c)) : n \in 0..MaxSpeakers, c \in BOOLEAN}

\* the state when a formatter is entered with the mapping of the file's row
InitCall(files, entry) ==
    /\ csvfile \in files
    /\ blind_judge = FALSE
    /\ pc = entry
    /\ header = CleanHeader(csvfile[1])
    /\ rowIdx = 1
    /\ data = BuildData(header, csvfile[2], 1, <<>>).data
    /\ address = <<>>
    /\ formatted_info = <<>>
    /\ story = <<>>
    /\ rowStart = 0
    /\ built = <<>>
    /\ error = "none"

Init == InitRun(SmallFiles)

InitWide == InitRun(WideFiles)

Spec == Init /\ [][Next]_vars

SpecWide == InitWide /\ [][Next]_vars

InitAddress == InitCall(AddressFiles, "format_address")

SpecAddress == InitAddress /\ [][CallFormatAddress]_vars

InitSpeaker == InitCall(SpeakerFiles, "format_speaker_info")

SpecSpeaker == InitSpeaker /\ [][CallFormatSpeakerInfo]_vars

-----------------------------------------------------------------------------
(* Reading the input file and the story, for the properties below *)

NotQuote(t) == t # "\""

\* the name of column i once its double quotes are removed
ColumnName(i) == SelectSeq(csvfile[1][i], NotQuote)

Columns == 1..Len(csvfile[1])

HasColumn(k) == \E i \in Columns : ColumnName(i) = k

\* the value a complete row gives the key k: the cell under the last column
\* of that name, "" without such a column
Cell(row, k) ==
    IF HasColumn(k)
    THEN row[CHOOSE i \in Columns :
                 ColumnName(i) = k /\ \A j \in Columns : j > i => ColumnName(j) # k]
    ELSE <<>>

RowComplete(row) == Len(row) >= Len(csvfile[1])

AllAddressColumns == \A i \in 1..Len(AddressKeys) : HasColumn(AddressKeys[i])

NonBlank(v) == \E i \in 1..Len(v) : v[i] # " "

\* the number of "|"-separated parts of a cell
NumParts(v) == Cardinality({i \in 1..Len(v) : v[i] = "|"}) + 1

\* the row the reader yielded last
LastRow == csvfile[rowIdx + 1]

\* the last row has been processed without error
RowDone == rowIdx >= 1 /\ pc \in {"rows", "done"}

\* the last row has been processed, with or without error
RowHandled == rowIdx >= 1 /\ pc \in {"rows", "done", "aborted"}

\* what the last row appended to the story
Section == IF rowStart = 0 THEN <<>> ELSE SubSeq(story, rowStart, Len(story))

IsParagraph(e, text) == e.type = "Paragraph" /\ e.text = text

\* the number of paragraphs of sec with the given text
Occurrences(sec, text) == Cardinality({i \in 1..Len(sec) : IsParagraph(sec[i], text)})

\* the number of places of sec where a paragraph a is followed by a paragraph b
PairOccurrences(sec, a, b) ==
    Cardinality({i \in 1..(Len(sec) - 1) :
                    IsParagraph(sec[i], a) /\ IsParagraph(sec[i + 1], b)})

IsPrefix(s, t) == Len(s) <= Len(t) /\ SubSeq(t, 1, Len(s)) = s

-----------------------------------------------------------------------------
(* C9 *)

\* the ways a row fails that the specification lists
RowShort(row) == ~RowComplete(row)

AddressColumnMissing == ~AllAddressColumns

SpeakerMalformed(row) ==
    \E i \in Columns :
        /\ Contains(ColumnName(i), SpeakerInfoMarker)
        /\ NonBlank(row[i])
        /\ NumParts(row[i]) < 4
        /\ \A j \in 1..(i - 1) :
              Contains(ColumnName(j), SpeakerInfoMarker) => row[j] # <<>>

EmptyAddressIndexed(row) ==
    /\ blind_judge
    /\ HasColumn(K_JobTitle)
    /\ NonBlank(Cell(row, K_JobTitle))
    /\ \A i \in 1..Len(AddressKeys) : Cell(row, AddressKeys[i]) = <<>>

RowFails(row) ==
    \/ RowShort(row)
    \/ AddressColumnMissing
    \/ SpeakerMalformed(row)
    \/ EmptyAddressIndexed(row)

\* C9: the document is serialized at most once, and only after every row of
\* the file has been processed without error; once a row has failed in one of
\* the listed ways the run is aborted and nothing was serialized, however many
\* rows were appended before.
C9_BuildOnceAfterAllRows ==
    /\ Len(built) <= 1
    /\ built # <<>> =>
          /\ pc = "done"
          /\ error = "none"
          /\ rowIdx = Len(csvfile) - 1
          /\ built = <<story>>
    /\ pc = "aborted" => built = <<>> /\ error # "none"
    /\ \A i \in 1..rowIdx :
          RowFails(csvfile[i + 1]) => pc = "aborted" /\ built = <<>> /\ rowIdx = i

\* C9 witness: the second row failed after the first was appended, and nothing
\* was serialized
C9_Witness ==
    /\ pc = "aborted"
    /\ rowIdx = 2
    /\ ~RowFails(csvfile[2])
    /\ RowFails(csvfile[3])
    /\ Len(story) > 5
    /\ built = <<>>

-----------------------------------------------------------------------------
(* C10 *)

PageBreaks == {i \in 1..Len(story) : story[i].type = "PageBreak"}

Headings == {i \in 1..Len(story) : story[i].type = "Paragraph" /\ story[i].style = "h2"}

\* the position of the i-th PageBreak of the story
PageBreakAt(i) == CHOOSE p \in PageBreaks : Cardinality({q \in PageBreaks : q <= p}) = i

\* the heading the i-th row is to get
HeadingOf(i) ==
    Paragraph(<<"Entry ID: ">>
                  \o (IF HasColumn(K_EntryId) THEN Cell(csvfile[i + 1], K_EntryId)
                      ELSE <<"No Entry ID">>),
              "h2")

C10_Shape ==
    pc \in {"rows", "done"} =>
        /\ Len(story) >= 2
        /\ story[1] = Paragraph(<<"Call For Participation Entries">>, "h1")
        /\ story[2] = Spacer(2)
        /\ Cardinality(PageBreaks) = rowIdx
        /\ Cardinality(Headings) = rowIdx
        /\ \A i \in 1..rowIdx :
              /\ PageBreakAt(i) < Len(story)
              /\ story[PageBreakAt(i) + 1] = HeadingOf(i)
        /\ rowIdx >= 1 => PageBreakAt(1) = 3 /\ PageBreakAt(rowIdx) = rowStart

C10_AppendOnly == IsPrefix(story, story')

\* C10: after the rows processed so far the story is the title block followed
\* by one section per row in input order, each starting with a PageBreak and
\* then the one "Entry ID: {value}" heading of that row ("No Entry ID" without
\* an Entry Id column); no step removes or reorders what the story holds.
C10_SectionPerRow == []C10_Shape /\ [][C10_AppendOnly]_vars

\* C10 witness: two rows with different entry ids have been serialized
C10_Witness ==
    /\ pc = "done"
    /\ rowIdx = 2
    /\ HasColumn(K_EntryId)
    /\ Cell(csvfile[2], K_EntryId) = <<"7">>
    /\ Cell(csvfile[3], K_EntryId) = <<"42">>
    /\ story[PageBreakAt(2) + 1] = HeadingOf(2)

-----------------------------------------------------------------------------
(* C1 *)

\* the columns whose name holds the speaker marker, and those format_speaker_info reads
MarkerColumns == {i \in Columns : Contains(ColumnName(i), SpeakerMarker)}

SpeakerColumns == {i \in Columns : Contains(ColumnName(i), SpeakerInfoMarker)}

\* no paragraph of the block is in the last row's section
BlockAbsent(block) ==
    \A j \in 1..Len(block) :
        block[j].type = "Paragraph" => Occurrences(Section, block[j].text) = 0

\* the block, followed by the spacer of line 135, is in the last row's section
BlockPresent(block) == block # <<>> /\ Contains(Section, block \o <<Spacer(1)>>)

SpeakerGateHolds ==
    IF blind_judge THEN BlockAbsent(format_speaker_info(data).info)
    ELSE format_speaker_info(data).err = "none"
         /\ BlockPresent(format_speaker_info(data).info)

\* C1 as stated: for every rendered row with a speaker column whose value is
\* non-empty, the speaker block is absent in blind mode and present otherwise.
C1_Original ==
    (RowDone /\ RowComplete(LastRow) /\ \E i \in MarkerColumns : LastRow[i] # <<>>)
        => SpeakerGateHolds

\* C1 amended: for every row processed without error that has a speaker column
\* whose value is not whitespace-only, no paragraph of the speaker block is in
\* the row's output in blind mode, and the whole block is in it otherwise.
C1_SpeakerBlockGated ==
    (RowDone /\ RowComplete(LastRow) /\ \E i \in MarkerColumns : NonBlank(LastRow[i]))
        => SpeakerGateHolds

\* C1 witness: a row with a well-formed speaker has been rendered in blind mode
C1_Witness ==
    /\ RowDone
    /\ blind_judge
    /\ \E i \in SpeakerColumns : LastRow[i] = Jane
    /\ formatted_info # <<>>
    /\ Occurrences(formatted_info, <<"Jane", ",", " ", "Doe">>) = 1
    /\ Occurrences(Section, <<"Jane", ",", " ", "Doe">>) = 0

-----------------------------------------------------------------------------
(* C2 *)

CityStateZip(row) ==
    Cell(row, K_City) \o <<",", " ">> \o Cell(row, K_State) \o <<" ">> \o Cell(row, K_Zip)

\* C2 as stated: in blind mode, for every rendered row with a Job Title, the
\* line after the Address label is the city/state/zip line, and the street,
\* the second address line and the visa note are not in the row's output.
C2_BlindAddressIsCityStateZip ==
    (/\ RowDone
     /\ blind_judge
     /\ RowComplete(LastRow)
     /\ AllAddressColumns
     /\ HasColumn(K_JobTitle)
     /\ NonBlank(Cell(LastRow, K_JobTitle)))
        => /\ Occurrences(Section, <<"<b>", "Address", ":</b>">>) = 1
           /\ PairOccurrences(Section, <<"<b>", "Address", ":</b>">>,
                              CityStateZip(LastRow)) = 1
           /\ \A k \in {K_Street, K_Line2, K_Note} :
                 Cell(LastRow, k) # <<>> => Occurrences(Section, Cell(LastRow, k)) = 0

-----------------------------------------------------------------------------
(* C3 *)

\* the number of paragraphs between the Address label and the next spacer
AddressLines(sec) ==
    Cardinality({i \in 1..Len(sec) :
        /\ sec[i].type = "Paragraph"
        /\ \E a \in 1..(i - 1) :
              /\ IsParagraph(sec[a], <<"<b>", "Address", ":</b>">>)
              /\ \A m \in (a + 1)..i : sec[m].type = "Paragraph"})

\* C3 as stated: a row whose only non-empty fields are Entry Id and Job Title,
\* with the six address columns present and empty, is rendered in blind mode
\* without error, with its heading once, the Job Title label and value, and
\* exactly one address line.
C3_MinimalBlindRow ==
    (/\ RowHandled
     /\ blind_judge
     /\ RowComplete(LastRow)
     /\ AllAddressColumns
     /\ HasColumn(K_EntryId)
     /\ HasColumn(K_JobTitle)
     /\ \A i \in Columns : LastRow[i] # <<>> <=> ColumnName(i) \in {K_EntryId, K_JobTitle})
        => /\ pc # "aborted"
           /\ Occurrences(Section, <<"Entry ID: ">> \o Cell(LastRow, K_EntryId)) = 1
           /\ PairOccurrences(Section, <<"<b>", "Job Title", ":</b>">>,
                              Cell(LastRow, K_JobTitle)) = 1
           /\ AddressLines(Section) = 1

-----------------------------------------------------------------------------
(* C5 *)

\* C5 as stated, for rows whose speaker columns are all speaker slots, each
\* empty or of four parts: without blind mode every slot before the first empty
\* one has its block in the row's output exactly once, and no slot at or after
\* the first empty one has any.
C5_OneBlockPerSlot ==
    (/\ RowDone
     /\ ~blind_judge
     /\ RowComplete(LastRow)
     /\ MarkerColumns = SpeakerColumns
     /\ \A i \in SpeakerColumns : LastRow[i] = <<>> \/ Len(Split(LastRow[i], "|")) = 4)
        => \A i \in SpeakerColumns :
              Occurrences(Section, Label(ColumnName(i)))
                  = IF \A j \in SpeakerColumns : j <= i => LastRow[j] # <<>>
                    THEN 1 ELSE 0

-----------------------------------------------------------------------------
(* C6 *)

GenericColumns ==
    {i \in Columns :
        /\ ColumnName(i) \notin {K_EntryId, K_Phone, K_Email, K_JobTitle}
        /\ \A a \in 1..Len(AddressKeys) : ColumnName(i) # AddressKeys[a]
        /\ ~Contains(ColumnName(i), SpeakerMarker)
        /\ ~Contains(ColumnName(i), AbstractMarker)}

\* C6 as stated: every key that is not special-cased and whose value is
\* non-empty has its label paragraph followed by its value paragraph exactly
\* once in the row's output, in both modes.
C6_Original ==
    (RowDone /\ RowComplete(LastRow))
        => \A i \in GenericColumns :
              Cell(LastRow, ColumnName(i)) # <<>> =>
                  PairOccurrences(Section, Label(ColumnName(i)),
                                  Cell(LastRow, ColumnName(i))) = 1

\* C6 amended: every key that is not special-cased has its label paragraph
\* followed by its value paragraph exactly once in the output of a row
\* processed without error when its value is not whitespace-only, and not at
\* all when it is empty or whitespace-only, in both modes.
C6_GenericFieldOnce ==
    (RowDone /\ RowComplete(LastRow))
        => \A i \in GenericColumns :
              /\ PairOccurrences(Section, Label(ColumnName(i)),
                                 Cell(LastRow, ColumnName(i)))
                     = IF NonBlank(Cell(LastRow, ColumnName(i))) THEN 1 ELSE 0
              /\ Occurrences(Section, Label(ColumnName(i)))
                     = IF NonBlank(Cell(LastRow, ColumnName(i))) THEN 1 ELSE 0

\* C6 witness: a generic column with a value has been rendered in blind mode
C6_Witness ==
    /\ RowDone
    /\ blind_judge
    /\ \E i \in GenericColumns :
          /\ Cell(LastRow, ColumnName(i)) = <<"Talk">>
          /\ PairOccurrences(Section, Label(ColumnName(i)), <<"Talk">>) = 1

-----------------------------------------------------------------------------
(* C8 *)

\* C8 as stated: a speaker column whose non-empty value has fewer than four
\* parts aborts the run with an indexing error, whatever the column, whatever
\* the earlier speaker columns hold, and in both modes.
C8_Original ==
    (/\ RowHandled
     /\ RowComplete(LastRow)
     /\ AllAddressColumns
     /\ \E i \in SpeakerColumns : LastRow[i] # <<>> /\ NumParts(LastRow[i]) < 4)
        => pc = "aborted" /\ error = "IndexError"

\* C8 amended: a speaker column whose value is not whitespace-only and has
\* fewer than four parts, with no empty speaker column before it, aborts the
\* run with an indexing error while its row is processed, in both modes.
C8_MalformedSpeakerAborts ==
    (RowHandled /\ RowComplete(LastRow) /\ AllAddressColumns /\ SpeakerMalformed(LastRow))
        => pc = "aborted" /\ error = "IndexError"

\* C8 witness: in blind mode the second speaker column is malformed after a
\* well-formed first one, and the run is aborted
C8_Witness ==
    /\ pc = "aborted"
    /\ error = "IndexError"
    /\ blind_judge
    /\ RowComplete(LastRow)
    /\ Cell(LastRow, H_Speaker1) = Jane
    /\ Cell(LastRow, H_Speaker2) = ThreeParts
    /\ Cell(LastRow, K_City) # <<>>

-----------------------------------------------------------------------------
(* C7 *)

\* the mapping of the file's row, as line 113 builds it
RowMapping == [i \in Columns |-> <<ColumnName(i), csvfile[2][i]>>]

IsAddressItem(kv) == \E a \in 1..Len(AddressKeys) : kv[1] = AddressKeys[a]

NotAddressItem(kv) == ~IsAddressItem(kv)

NonEmptyLine(v) == IF v # <<>> THEN <<v>> ELSE <<>>

ExpectedAddress(row) ==
    NonEmptyLine(Cell(row, K_Street))
    \o NonEmptyLine(Cell(row, K_Line2))
    \o (IF Cell(row, K_City) = <<>> /\ Cell(row, K_State) = <<>> /\ Cell(row, K_Zip) = <<>>
        THEN <<>> ELSE <<CityStateZip(row)>>)
    \o NonEmptyLine(Cell(row, K_Note))

-----------------------------------------------------------------------------
(* C4 *)

\* a speaker value of four parts whose first or last name is empty
Nameless(v) ==
    /\ v # <<>>
    /\ Len(Split(v, "|")) >= 4
    /\ (Split(v, "|")[1] = <<>> \/ Split(v, "|")[2] = <<>>)

NoEmptySlotUpTo(row, i) == \A j \in SpeakerColumns : j <= i => row[j] # <<>>

\* C4 as stated: format_speaker_info stops at a slot whose first or last name
\* is empty: neither that slot nor a later one gets a label.
C4_Original ==
    pc = "returned" =>
        \A i \in SpeakerColumns :
            Nameless(csvfile[2][i]) =>
                \A j \in SpeakerColumns :
                    j >= i => Occurrences(formatted_info, Label(ColumnName(j))) = 0

\* C4 amended: format_speaker_info stops only at a slot whose value is the
\* empty string: a slot gets its label exactly when no slot up to it is empty,
\* and a rendered slot whose first or last name is empty gets its label
\* followed by its email and its organization, without the name line.
C4_StopsAtEmptySlotOnly ==
    pc = "returned" =>
        \A i \in SpeakerColumns :
            /\ Occurrences(formatted_info, Label(ColumnName(i)))
                   = IF NoEmptySlotUpTo(csvfile[2], i) THEN 1 ELSE 0
            /\ (NoEmptySlotUpTo(csvfile[2], i) /\ Nameless(csvfile[2][i])) =>
                  \E p \in 1..(Len(formatted_info) - 3) :
                      /\ IsParagraph(formatted_info[p], Label(ColumnName(i)))
                      /\ IsParagraph(formatted_info[p + 1], Split(csvfile[2][i], "|")[4])
                      /\ IsParagraph(formatted_info[p + 2], Split(csvfile[2][i], "|")[3])
                      /\ formatted_info[p + 3] = Spacer(1)

\* C4 witness: a slot without first name is followed by a complete one, and
\* both have been rendered
C4_Witness ==
    /\ pc = "returned"
    /\ Cell(csvfile[2], H_Speaker1) = NoFirst
    /\ Cell(csvfile[2], H_Speaker2) = Ann
    /\ PairOccurrences(formatted_info, Label(H_Speaker1), <<"roe@z.net">>) = 1
    /\ PairOccurrences(formatted_info, Label(H_Speaker2), <<"Ann", ",", " ", "Lee">>) = 1

====
